---- MODULE Spec2Model ----
(***************************************************************************)
(* PACE dispatch server (src/server.py) with its collaborators            *)
(* (src/Responses.py, src/Carter.py, src/News.py).                         *)
(*                                                                         *)
(* The server is a websocket_server.WebsocketServer: a threading TCP       *)
(* server that runs one handler thread per connection.  A handler thread   *)
(* performs the handshake, appends its client to server.clients and calls  *)
(* new_client; then it reads frames and calls message_received for each;    *)
(* when its handle() loop ends, normally or by an exception raised in a    *)
(* callback, its finish() calls client_left and removes the client from    *)
(* server.clients.  send_message_to_all is a plain `for client in          *)
(* self.clients` loop of blocking socket sends, with no lock and no        *)
(* exception handling; src/server.py adds none of its own.                 *)
(***************************************************************************)
EXTENDS Integers, Sequences, FiniteSets, TLC

\* ---------------------------------------------------------------- bounds
MaxSessions == 2        \* connections accepted in one run
MaxMsgs == 2            \* messages received in one run

\* the connections of a run, numbered in the order in which their handler
\* threads run the library's id_counter += 1
Sessions == 1..MaxSessions
Texts == {"hi", "exit"}             \* client texts ("exit" is not special to the server)
ReplyTexts == {"ok"}                \* output.text values of the chat completion

VARIABLES
    workingSubsystems,  \* server.py:20, as left by the startup checks
    id_counter,         \* WebsocketServer.id_counter
    cid,                \* client['id'] of each connection, 0 before it has one
    clients,            \* WebsocketServer.clients: the list iterated by send_message_to_all
    pc,                 \* position of each connection's handler thread
    conn,               \* transport of each connection: "none", "up", "dropped", "closed"
    inbox,              \* frames each client has received, in order
    cur,                \* message_received's locals: message, generatedMessage, number of the log line
    it,                 \* index of the list iterator of send_message_to_all
    tgt,                \* client fetched by that iterator, being sent to
    snap,               \* history: clients registered when send_message_to_all was called
    exc,                \* exception that ended the handler thread, "none" if none
    nmsg,               \* number of messages logged so far (server.py:49)
    stray,              \* a connection whose handshake is refused: "none", "left", "raised"
    env,                \* startup: what opening and checking each subsystem meets
    idx,                \* startup: position of the iterator of `for subsystem in workingSubsystems`
    examined,           \* startup history: the subsystems the loop body ran for, in order
    boot,               \* startup: "loop", "exit1" (exit(1), server.py:136) or "serving"
    imported,           \* the modules the startup loop has imported into server.py
    greeting,           \* the text new_client builds (server.py:32-36) in this run
    response,           \* reply: what Carter.getCarterResponse brings back
    wolframCall,            \* reply: outcome of Wolfram.getWolframResponse
    weather,            \* reply: the JSON fields Weather.getWeather reads
    reply,              \* reply: result of the generateResponse that was applied
    received,           \* client.py:7 (server.py:275 in the voice client): the client's flag
    mpc,                \* client: position of the mainloop thread (client.py:31-41)
    msg,                \* client: mainloop's local msg
    wire,               \* client: frames sent to the client and not yet handled by on_message
    outbox,             \* client: messages the client has sent, not yet answered by the server
    lastFrame,          \* client history: the frame on_message handled last
    shown,              \* client: the text on_message printed last (client.py:12)
    nsent,              \* client history: number of ws.send calls done
    nown,               \* client history: own-message frames on_message has handled (text client: to its end)
    nother,             \* client history: frames caused by other sessions sent to it
    fresh,              \* client history: frames on_message handled since the last ws.send
    iSentTheMessage,    \* voice client: server.py:277
    spoken,             \* voice client history: the frames whose reply was passed to speak
    wpc,                \* clients: where on_message is ("idle", "flag"; voice: "speak", "say", "wait")
    wframe,             \* clients: the frame on_message is handling
    wsock               \* voice client: the WebSocketApp's socket, "open" or "closed"

\* the server's state while it serves
serverVars == <<id_counter, cid, clients, pc, conn, inbox, cur, it, tgt, snap, exc, nmsg,
                stray>>

\* what no handler of the server writes
replyVars == <<response, wolframCall, weather, reply>>

clientVars == <<received, mpc, msg, wire, outbox, lastFrame, shown, nsent, nown, nother,
                fresh>>

voiceVars == <<iSentTheMessage, spoken, wpc, wframe, wsock>>

\* what the startup script leaves to the server, and its own bookkeeping
bootVars == <<workingSubsystems, env, idx, examined, boot, imported, greeting>>

fixed == <<bootVars, replyVars, clientVars, voiceVars>>

vars == <<workingSubsystems, id_counter, cid, clients, pc, conn, inbox, cur, it, tgt,
          snap, exc, nmsg, stray, env, idx, examined, boot,
          response, wolframCall, weather, reply,
          received, mpc, msg, wire, outbox, lastFrame, shown, nsent, nown, nother,
          fresh, iSentTheMessage, spoken, imported, greeting, wpc, wframe, wsock>>

\* ------------------------------------------------------------ data, helpers
allSubsystems == <<"Wolfram", "Carter", "Responses", "Weather", "News">>

Range(q) == {q[i] : i \in 1..Len(q)}

Registered == Range(clients)

NoMsg == [message |-> "", generatedMessage |-> "", n |-> 0]

\* list.remove(x) guarded by `if client in self.clients`
ListRemove(q, x) == SelectSeq(q, LAMBDA c : c # x)

\* The texts str() can give for a Python set of strings: the elements are
\* listed in the iteration order of the set, which for two or more strings
\* depends on the hash seed of the run, so every order is possible.
RECURSIVE SetStrItems(_)
SetStrItems(S) ==
    IF S = {} THEN {""}
    ELSE UNION {{"'" \o x \o "'" \o (IF S = {x} THEN "" ELSE ", " \o rest) :
                    rest \in SetStrItems(S \ {x})} : x \in S}

SetStr(S) == IF S = {} THEN {"set()"} ELSE {"{" \o items \o "}" : items \in SetStrItems(S)}

\* server.py:32-36: the texts the greeting can be, one for each order in
\* which str() lists brokenSubsystems
GreetingText(working) ==
    IF allSubsystems = working
    THEN {" $$ All subsystems are working!"}
    ELSE {" $$ Subsystems: " \o broken \o " are not working!" :
             broken \in SetStr(Range(allSubsystems) \ Range(working))}

\* server.py:51: response = f"{message}$${generatedMessage}"
ResponseText(message, generatedMessage) == message \o "$$" \o generatedMessage

GreetingFrame(s) == [payload |-> greeting, src |-> s, n |-> 0]

BroadcastFrame(s) ==
    [payload |-> ResponseText(cur[s].message, cur[s].generatedMessage),
     src |-> s, n |-> cur[s].n]

\* ------------------------------------------------------- Reply Generator
\* Outcomes of Carter.getCarterResponse (Carter.py:11-21): the request or
\* resp.json() raises, or a JSON object comes back, with or without output.text.
CarterOutcomes ==
    {[raised |-> TRUE, hasOutput |-> FALSE, text |-> ""],
     [raised |-> FALSE, hasOutput |-> FALSE, text |-> ""]}
    \cup {[raised |-> FALSE, hasOutput |-> TRUE, text |-> r] : r \in ReplyTexts}

\* Wolfram.getWolframResponse (called at Responses.py:60): returns or raises.
WolframOutcomes == {"returned", "raised"}

\* Responses.generateResponse (Responses.py:58-97): no try/except, so every
\* failure of a collaborator or a missing output.text leaves it as an exception.
generateResponse(carterResponse, wolfram) ==
    IF carterResponse.raised THEN [ok |-> FALSE, text |-> ""]
    ELSE IF wolfram = "raised" THEN [ok |-> FALSE, text |-> ""]
    ELSE IF ~carterResponse.hasOutput THEN [ok |-> FALSE, text |-> ""]
    ELSE [ok |-> TRUE, text |-> carterResponse.text]

\* ------------------------------------------------------------ transport
\* handler.send_message -> socket.send on the connection of client t: a frame
\* written to a live connection arrives; a write to a connection the peer has
\* dropped is either buffered and lost or raises; a write to a socket the
\* server has already closed raises.
SendOutcomes(t) ==
    CASE conn[t] = "up" -> {"delivered"}
      [] conn[t] = "dropped" -> {"lost", "raised"}
      [] OTHER -> {"raised"}

Delivered(t, frame, outcome) ==
    IF outcome = "delivered" THEN [inbox EXCEPT ![t] = Append(@, frame)] ELSE inbox

\* an exception leaves the callback: handle() unwinds to finish()
Raise(s, what) ==
    /\ pc' = [pc EXCEPT ![s] = "left"]
    /\ exc' = [exc EXCEPT ![s] = what]

\* ------------------------------------------------------------------ Init
\* What the loop body of the startup checks (server.py:78-128) can meet for a
\* subsystem: "missing" (open() of its file raises), "broken" (its import
\* raises), "down" (its check() raises), "ok".  Carter has no branch in the
\* loop, so nothing of Carter is imported or checked there.
Outcomes(x) ==
    IF x = "Carter" THEN {"missing", "ok"} ELSE {"missing", "broken", "down", "ok"}

\* Responses.py imports Weather, News, Carter and Wolfram (Responses.py:3-6):
\* its import succeeds only if theirs do.
Environments ==
    {e \in [Range(allSubsystems) -> {"missing", "broken", "down", "ok"}] :
        /\ \A x \in Range(allSubsystems) : e[x] \in Outcomes(x)
        /\ e["Responses"] \in {"down", "ok"} =>
               \A x \in {"Weather", "News", "Carter", "Wolfram"} :
                   e[x] \notin {"missing", "broken"}}

\* the subsystems the loop body has an import-and-check branch for
\* (server.py:83-116)
Checked == {"Weather", "News", "Wolfram", "Responses", "gpt"}

\* the loop body removes the subsystem: the outer except (file missing) or
\* the inner except (import or check raised)
RemovedIn(e, subsystem) ==
    \/ e[subsystem] = "missing"
    \/ /\ e[subsystem] \in {"broken", "down"}
       /\ subsystem \in Checked

\* the loop body's `import <subsystem>` succeeds and binds the module's name
\* in server.py
ImportedIn(e, subsystem) ==
    /\ subsystem \in Checked
    /\ e[subsystem] \in {"down", "ok"}

\* One run of the loop body (server.py:75-128) for the item at index i of
\* the list ws, with imp the modules imported so far.
LoopBody(e, ws, i, imp) ==
    LET subsystem == ws[i] IN
    [working |-> IF RemovedIn(e, subsystem) THEN ListRemove(ws, subsystem) ELSE ws,
     imported |-> IF ImportedIn(e, subsystem) THEN imp \cup {subsystem} ELSE imp]

\* The loop `for subsystem in workingSubsystems` (server.py:74) from index i
\* on: the list iterator advances by one after each body, also when the body
\* has removed an item from the list.
RECURSIVE StartupLoop(_, _, _, _)
StartupLoop(e, ws, i, imp) ==
    IF i > Len(ws) THEN [working |-> ws, imported |-> imp]
    ELSE LET r == LoopBody(e, ws, i, imp)
         IN  StartupLoop(e, r.working, i + 1, r.imported)

\* What the startup checks can leave with the server started ("Responses" in
\* workingSubsystems, server.py:130): the list and the imported modules.
StartupOutcomes ==
    {r \in {StartupLoop(e, allSubsystems, 1, {}) : e \in Environments} :
        "Responses" \in Range(r.working)}

\* the startup script has run to server.run_forever() (server.py:153)
StartupDone ==
    /\ env = [x \in Range(allSubsystems) |-> "ok"]
    /\ idx = 0
    /\ examined = <<>>
    /\ boot = "serving"

\* no generateResponse is being looked at on its own
ReplyIdle ==
    /\ response = [raised |-> TRUE, hasOutput |-> FALSE, text |-> <<>>,
                   hasTriggers |-> FALSE, triggers |-> <<>>]
    /\ wolframCall = "returned"
    /\ weather = [has |-> {}, city |-> <<>>, description |-> <<>>, temp |-> 0,
                  feels_like |-> 0]
    /\ reply = [by |-> "none", ok |-> FALSE, text |-> <<>>]

\* on_message of the voice client is handling no frame
NoFrame == [payload |-> <<>>, own |-> FALSE]

\* no voice client is being looked at on its own
VoiceIdle ==
    /\ iSentTheMessage = TRUE
    /\ spoken = <<>>
    /\ wpc = "idle"
    /\ wframe = NoFrame
    /\ wsock = "open"

\* no text client is being looked at on its own
ClientIdle ==
    /\ received = FALSE
    /\ mpc = "closed"
    /\ msg = <<>>
    /\ wire = <<>>
    /\ outbox = <<>>
    /\ lastFrame = <<>>
    /\ shown = <<>>
    /\ nsent = 0
    /\ nown = 0
    /\ nother = 0
    /\ fresh = 0

\* the WebsocketServer as constructed (server.py:145), no connection yet
ServerInit ==
    /\ id_counter = 0
    /\ cid = [s \in Sessions |-> 0]
    /\ clients = <<>>
    /\ pc = [s \in Sessions |-> "none"]
    /\ conn = [s \in Sessions |-> "none"]
    /\ inbox = [s \in Sessions |-> <<>>]
    /\ cur = [s \in Sessions |-> NoMsg]
    /\ it = [s \in Sessions |-> 0]
    /\ tgt = [s \in Sessions |-> 0]
    /\ snap = [s \in Sessions |-> {}]
    /\ exc = [s \in Sessions |-> "none"]
    /\ nmsg = 0
    /\ stray = "none"

\* every subsystem passed its check
AllWorking ==
    /\ workingSubsystems = allSubsystems
    /\ imported = Range(allSubsystems) \cap Checked
    /\ greeting \in GreetingText(allSubsystems)

Init ==
    /\ \E r \in StartupOutcomes :
          /\ workingSubsystems = r.working
          /\ imported = r.imported
    /\ greeting \in GreetingText(workingSubsystems)
    /\ StartupDone
    /\ ServerInit
    /\ ReplyIdle
    /\ ClientIdle
    /\ VoiceIdle

\* --------------------------------------------------------------- actions
\* A connection is accepted and the websocket handshake done on its handler
\* thread: the library's _new_client_ runs self.id_counter += 1.
handshake(s) ==
    /\ pc[s] = "none"
    /\ s = id_counter + 1
    /\ id_counter' = id_counter + 1
    /\ conn' = [conn EXCEPT ![s] = "up"]
    /\ pc' = [pc EXCEPT ![s] = "register"]
    /\ UNCHANGED <<fixed, stray, cid, clients, inbox, cur, it, tgt, snap, exc, nmsg>>

\* _new_client_ goes on: it builds the client with 'id': self.id_counter,
\* read again from the server with no lock held since the increment, appends
\* it to server.clients and calls new_client, which starts with
\* News.writeJSON() (server.py:31).
handshake_register(s) ==
    /\ pc[s] = "register"
    /\ cid' = [cid EXCEPT ![s] = id_counter]
    /\ clients' = Append(clients, s)
    /\ pc' = [pc EXCEPT ![s] = "writeJSON"]
    /\ UNCHANGED <<fixed, stray, id_counter, conn, inbox, cur, it, tgt, snap, exc, nmsg>>

\* server.py:31, News.py:29-31: the name News is looked up in server.py
\* (NameError when the startup loop never imported it), then the feed is
\* fetched and the Desktop file opened for writing; either may raise (no
\* feed, no such directory).
writeJSON_open(s) ==
    /\ pc[s] = "writeJSON"
    /\ IF "News" \notin imported
       THEN Raise(s, "NameError")
       ELSE \/ pc' = [pc EXCEPT ![s] = "desktop"] /\ UNCHANGED exc
            \/ Raise(s, "writeJSON")
    /\ UNCHANGED <<fixed, stray, id_counter, cid, clients, conn, inbox, cur, it,
                   tgt, snap, nmsg>>

\* The greeting sent with send_message_to_all instead of send_message.
GreetingReceivers_all(s) == Registered

\* server.py:38: the clients send_message(client, response) writes to.
GreetingReceivers(s) == {s}

\* News.py:32-34, server.py:32-39: the Desktop file is written and closed,
\* then the Big Display file is opened (which may raise: no such directory),
\* written and closed, writeJSON returns, the greeting is built and sent.
new_client(s) ==
    /\ pc[s] = "desktop"
    /\ \/ Raise(s, "writeJSON") /\ UNCHANGED inbox
       \/ \E o \in SendOutcomes(s) :
             IF o = "raised"
             THEN Raise(s, "send_message") /\ UNCHANGED inbox
             ELSE /\ inbox' = [t \in Sessions |->
                                 IF t \in GreetingReceivers(s) /\ (t = s => o = "delivered")
                                    /\ (t # s => conn[t] = "up")
                                 THEN Append(inbox[t], GreetingFrame(s))
                                 ELSE inbox[t]]
                  /\ pc' = [pc EXCEPT ![s] = "read"]
                  /\ UNCHANGED exc
    /\ UNCHANGED <<fixed, stray, id_counter, cid, clients, conn, cur, it, tgt,
                   snap, nmsg>>

\* message_received of a server that handles one message at a time: no
\* message is taken up while another handler is inside generateResponse.
message_received_serial(s, text) ==
    /\ pc[s] = "read"
    /\ conn[s] = "up"
    /\ \A t \in Sessions : pc[t] # "reply"
    /\ nmsg < MaxMsgs
    /\ nmsg' = nmsg + 1
    /\ cur' = [cur EXCEPT ![s] = [message |-> text, generatedMessage |-> "",
                                  n |-> nmsg + 1]]
    /\ pc' = [pc EXCEPT ![s] = "reply"]
    /\ UNCHANGED <<fixed, stray, id_counter, cid, clients, conn, inbox, it, tgt,
                   snap, exc>>

\* The handler thread reads a text frame of its client and calls
\* message_received, which logs it (server.py:49) and calls
\* Responses.generateResponse (server.py:50).
message_received(s, text) ==
    /\ pc[s] = "read"
    /\ conn[s] = "up"
    /\ nmsg < MaxMsgs
    /\ nmsg' = nmsg + 1
    /\ cur' = [cur EXCEPT ![s] = [message |-> text, generatedMessage |-> "",
                                  n |-> nmsg + 1]]
    /\ pc' = [pc EXCEPT ![s] = "reply"]
    /\ UNCHANGED <<fixed, stray, id_counter, cid, clients, conn, inbox, it, tgt,
                   snap, exc>>

\* server.py:50-52: the name Responses is looked up in server.py (NameError
\* when the startup loop never imported it); generateResponse returns and
\* send_message_to_all is called (its list iterator starts at the first
\* client), or it raises.
message_received_reply(s) ==
    /\ pc[s] = "reply"
    /\ IF "Responses" \notin imported
       THEN Raise(s, "NameError") /\ UNCHANGED <<cur, it, snap>>
       ELSE \E c \in CarterOutcomes, w \in WolframOutcomes :
          LET g == generateResponse(c, w) IN
          IF g.ok
          THEN /\ cur' = [cur EXCEPT ![s].generatedMessage = g.text]
               /\ it' = [it EXCEPT ![s] = 1]
               /\ snap' = [snap EXCEPT ![s] = Registered]
               /\ pc' = [pc EXCEPT ![s] = "bcast"]
               /\ UNCHANGED exc
          ELSE /\ Raise(s, "generateResponse")
               /\ UNCHANGED <<cur, it, snap>>
    /\ UNCHANGED <<fixed, stray, id_counter, cid, clients, conn, inbox, tgt, nmsg>>

\* Carter.py:19: requests.request is called without a timeout; when the
\* service never answers, the call never returns and the handler thread
\* stays inside generateResponse (server.py:50).
getCarterResponse_blocks(s) ==
    /\ pc[s] = "reply"
    /\ "Responses" \in imported
    /\ pc' = [pc EXCEPT ![s] = "blocked"]
    /\ UNCHANGED <<fixed, stray, id_counter, cid, clients, conn, inbox, cur, it, tgt,
                   snap, exc, nmsg>>

\* send_message_to_all (server.py:52): the list iterator fetches the next
\* client of server.clients, or finds the list exhausted.
multicast_next(s) ==
    /\ pc[s] = "bcast"
    /\ IF it[s] <= Len(clients)
       THEN /\ tgt' = [tgt EXCEPT ![s] = clients[it[s]]]
            /\ it' = [it EXCEPT ![s] = @ + 1]
            /\ pc' = [pc EXCEPT ![s] = "send"]
       ELSE /\ pc' = [pc EXCEPT ![s] = "said"]
            /\ UNCHANGED <<tgt, it>>
    /\ UNCHANGED <<fixed, stray, id_counter, cid, clients, conn, inbox, cur, snap,
                   exc, nmsg>>

\* send_message_to_all: the blocking send to the fetched client.
multicast_send(s) ==
    /\ pc[s] = "send"
    /\ \E o \in SendOutcomes(tgt[s]) :
          IF o = "raised"
          THEN Raise(s, "send_message_to_all") /\ UNCHANGED inbox
          ELSE /\ inbox' = Delivered(tgt[s], BroadcastFrame(s), o)
               /\ pc' = [pc EXCEPT ![s] = "bcast"]
               /\ UNCHANGED exc
    /\ UNCHANGED <<fixed, stray, id_counter, cid, clients, conn, cur, it, tgt,
                   snap, nmsg>>

\* server.py:53: message_received returns; the thread reads again.
message_received_return(s) ==
    /\ pc[s] = "said"
    /\ pc' = [pc EXCEPT ![s] = "read"]
    /\ cur' = [cur EXCEPT ![s] = NoMsg]
    /\ it' = [it EXCEPT ![s] = 0]
    /\ tgt' = [tgt EXCEPT ![s] = 0]
    /\ snap' = [snap EXCEPT ![s] = {}]
    /\ UNCHANGED <<fixed, stray, id_counter, cid, clients, conn, inbox, exc, nmsg>>

\* The client closes its connection or the transport drops it.
drop(s) ==
    /\ conn[s] = "up"
    /\ conn' = [conn EXCEPT ![s] = "dropped"]
    /\ UNCHANGED <<fixed, stray, id_counter, cid, clients, pc, inbox, cur, it, tgt,
                   snap, exc, nmsg>>

\* The reading handler thread finds its connection closed and leaves handle().
connection_lost(s) ==
    /\ pc[s] = "read"
    /\ conn[s] = "dropped"
    /\ pc' = [pc EXCEPT ![s] = "left"]
    /\ UNCHANGED <<fixed, stray, id_counter, cid, clients, conn, inbox, cur, it,
                   tgt, snap, exc, nmsg>>

\* finish(): client_left is called (server.py:43-44, it only prints), the
\* library removes the client from server.clients and closes the socket.
\* The session is over: what its client had received and the exception that
\* ended its handler are not kept.
client_left(s) ==
    /\ pc[s] = "left"
    /\ clients' = ListRemove(clients, s)
    /\ pc' = [pc EXCEPT ![s] = "closed"]
    /\ conn' = [conn EXCEPT ![s] = "closed"]
    /\ cur' = [cur EXCEPT ![s] = NoMsg]
    /\ it' = [it EXCEPT ![s] = 0]
    /\ tgt' = [tgt EXCEPT ![s] = 0]
    /\ snap' = [snap EXCEPT ![s] = {}]
    /\ inbox' = [inbox EXCEPT ![s] = <<>>]
    /\ exc' = [exc EXCEPT ![s] = "none"]
    /\ UNCHANGED <<fixed, stray, id_counter, cid, nmsg>>

\* The client the library hands to client_left for handler h: the entry of
\* server.clients that belongs to h, None (written 0: ids start at 1) when
\* there is none.  The handler of a refused handshake is written 0.
handler_to_client(h) == IF h \in Registered THEN h ELSE 0

\* server.py:44: "Client(%d) disconnected" % client['id'] raises TypeError
\* when client is None.
client_left_raises(client) == client = 0

\* A connection that does not complete the websocket handshake: it is not
\* registered and gets no id; its handler leaves handle() for finish().
handshake_refused ==
    /\ stray = "none"
    /\ stray' = "left"
    /\ UNCHANGED <<fixed, id_counter, cid, clients, pc, conn, inbox, cur, it, tgt, snap,
                   exc, nmsg>>

\* finish() of that handler: client_left is called for a client that is
\* absent from server.clients; the library's removal is guarded by
\* `if client in self.clients`.
client_left_absent ==
    /\ stray = "left"
    /\ stray' = IF client_left_raises(handler_to_client(0)) THEN "raised" ELSE "done"
    /\ clients' = ListRemove(clients, handler_to_client(0))
    /\ UNCHANGED <<fixed, id_counter, cid, pc, conn, inbox, cur, it, tgt, snap, exc, nmsg>>

Next ==
    \/ handshake_refused
    \/ client_left_absent
    \/ \E s \in Sessions :
        \/ handshake(s)
        \/ handshake_register(s)
        \/ writeJSON_open(s)
        \/ new_client(s)
        \/ \E text \in Texts : message_received(s, text)
        \/ message_received_reply(s)
        \/ getCarterResponse_blocks(s)
        \/ multicast_next(s)
        \/ multicast_send(s)
        \/ message_received_return(s)
        \/ drop(s)
        \/ connection_lost(s)
        \/ client_left(s)

Spec == Init /\ [][Next]_vars

\* ------------------------------------------------- observations on frames
IsGreeting(f) == f.n = 0

\* how many frames of message n client t has received
FramesOf(t, n) == Cardinality({i \in 1..Len(inbox[t]) : inbox[t][i].n = n})

Greetings(t) == Cardinality({i \in 1..Len(inbox[t]) : IsGreeting(inbox[t][i])})

\* clients registered when the broadcast of s was called that are still
\* registered and connected
LiveReceivers(s) == {t \in snap[s] : t \in Registered /\ conn[t] = "up"}

\* ------------------------------------------------------------------ C1
\* C1: a broadcast delivers its payload to every registered session, and a
\* send failure to one session never prevents delivery to the others: when a
\* broadcast has ended by a send failure, every session that was registered
\* when it was called and is still registered and connected has the frame.
C1_SendFailureDoesNotAbort ==
    \A s \in Sessions :
        (pc[s] = "left" /\ exc[s] = "send_message_to_all")
            => \A t \in LiveReceivers(s) :
                   /\ FramesOf(t, cur[s].n) = 1
                   /\ \A i \in 1..Len(inbox[t]) :
                          inbox[t][i].n = cur[s].n
                              => inbox[t][i].payload = BroadcastFrame(s).payload

\* ------------------------------------------------------------------ C2
\* C2: the sender of a message receives its frame message$$reply exactly
\* once, whatever other sessions do in between: when message_received has
\* returned for a message and the sender is still connected, the sender's
\* inbox holds exactly one frame of that message, and no inbox ever holds two.
C2_SenderReceivesOwnFrameOnce ==
    /\ \A s \in Sessions :
           (pc[s] = "said" /\ conn[s] = "up") => FramesOf(s, cur[s].n) = 1
    /\ \A t \in Sessions : \A n \in 1..MaxMsgs : FramesOf(t, n) <= 1

\* ------------------------------------------------------------------ C3
\* C3: when the Reply Generator fails for a message, a fallback frame is
\* still broadcast: a handler that generateResponse's exception has ended
\* has given its still connected sender a frame of that message.
C3_FallbackOnReplyFailure ==
    \A s \in Sessions :
        (exc[s] = "generateResponse" /\ conn[s] = "up") => FramesOf(s, cur[s].n) >= 1

\* ------------------------------------------------------------------ C4
\* C4: the registry holds exactly the sessions connected and not yet
\* disconnected (those whose handler is between its registration and its
\* client_left), so a broadcast never targets a closed session: the client a
\* broadcast is sending to is registered and its socket is not closed.
C4_RegistryExactNoClosedTarget ==
    /\ Registered = {s \in Sessions : pc[s] \notin {"none", "register", "closed"}}
    /\ \A s \in Sessions :
           pc[s] = "send" => (tgt[s] \in Registered /\ conn[tgt[s]] # "closed")

\* ------------------------------------------------------------------ C5
\* C5: a new session receives exactly one greeting, and it is the first
\* frame it receives: the first frame of every inbox is a greeting, no inbox
\* holds two greetings, and a connected session whose new_client has returned
\* holds one.
C5_GreetingFirst ==
    \A t \in Sessions :
        /\ inbox[t] # <<>> => IsGreeting(inbox[t][1])
        /\ Greetings(t) <= 1
        /\ (pc[t] \in {"read", "reply", "bcast", "send", "said"} /\ conn[t] = "up")
               => Greetings(t) = 1

\* ------------------------------------------------------------------ C6
\* C6: the greeting produced for a new session is sent to that session
\* alone: every greeting frame a client has received was caused by its own
\* connection.
C6_GreetingOnlyToNewSession ==
    \A t \in Sessions : \A i \in 1..Len(inbox[t]) :
        IsGreeting(inbox[t][i]) => inbox[t][i].src = t

\* C6 witness: session 2 has been greeted while session 1 was connected,
\* greeted and reading, and session 1 holds nothing but its own greeting.
C6_Witness ==
    /\ pc[1] = "read" /\ conn[1] = "up"
    /\ inbox[1] = <<GreetingFrame(1)>>
    /\ pc[2] = "read" /\ conn[2] = "up"
    /\ inbox[2] = <<GreetingFrame(2)>>

\* ------------------------------------------------------------------ C7
\* C7: while one handler is blocked in generateResponse, every other session
\* can have a message received, have its own reply and broadcast proceed and
\* be sent frames, and a new connection can be accepted.
C7_BlockedReplyStallsNoOne ==
    \A s \in Sessions :
        pc[s] = "reply" =>
            /\ \A t \in Sessions \ {s} :
                   /\ (pc[t] = "read" /\ conn[t] = "up" /\ nmsg < MaxMsgs)
                          => ENABLED (\E text \in Texts : message_received(t, text))
                   /\ pc[t] = "reply" => ENABLED message_received_reply(t)
                   /\ pc[t] = "bcast" => ENABLED multicast_next(t)
                   /\ pc[t] = "send" => ENABLED multicast_send(t)
                   /\ pc[t] = "desktop" => ENABLED new_client(t)
            /\ id_counter < MaxSessions => ENABLED handshake(id_counter + 1)

\* C7 witness: session 2's message was received and its frame is being sent
\* to session 1 while session 1's handler is still inside generateResponse.
C7_Witness ==
    /\ pc[1] = "reply" /\ cur[1].n = 1
    /\ pc[2] = "send" /\ cur[2].n = 2 /\ tgt[2] = 1

\* ------------------------------------------------------------------ C8
\* C8: a session that disconnects while a broadcast is in progress does not
\* keep the broadcast from the others: when send_message_to_all has returned,
\* every session that was registered when it was called and is still
\* registered and connected has the frame.
C8_BroadcastReachesTheOthers ==
    \A s \in Sessions :
        pc[s] = "said" => \A t \in LiveReceivers(s) : FramesOf(t, cur[s].n) >= 1

\* ------------------------------------------------------------------ C9
\* C9: the registry is the only shared mutable resource and is mutated only
\* in mutually exclusive operations: no two handler threads are at the same
\* time inside the unsynchronized writes of the shared news.json files.
C9_SharedWritesExclusive ==
    \A s \in Sessions : \A t \in Sessions \ {s} :
        ~(pc[s] = "desktop" /\ pc[t] = "desktop")

\* ------------------------------------------------------------------ C10
\* C10: a failure to produce the greeting is not fatal to the new session:
\* a session whose writeJSON raised stays registered with a running handler.
C10_GreetingFailureNotFatal ==
    \A s \in Sessions :
        exc[s] = "writeJSON" => (s \in Registered /\ pc[s] \notin {"left", "closed"})

\* ------------------------------------------------------------------ C11
\* the session state of a handler position: Connecting until the handshake
\* registers the session, Open from then until its handler leaves handle(),
\* Closed afterwards
Phase(p) ==
    CASE p \in {"none", "register"} -> "Connecting"
      [] p \in {"left", "closed"} -> "Closed"
      [] OTHER -> "Open"

HandlerStep(s) ==
    \/ writeJSON_open(s)
    \/ new_client(s)
    \/ \E text \in Texts : message_received(s, text)
    \/ message_received_reply(s)
    \/ multicast_next(s)
    \/ multicast_send(s)
    \/ message_received_return(s)
    \/ connection_lost(s)
    \/ client_left(s)

\* C12: every message_received completes, also when a collaborator never
\* answers, because each outbound call is bounded by a timeout: a handler
\* waiting on a call that is not answered still has a step to take.
C12_CollaboratorCallsTimeOut ==
    \A s \in Sessions : pc[s] = "blocked" => ENABLED HandlerStep(s)

\* ------------------------------------------------------------------ C13
\* C13: handling the disconnect of a session that is absent from the
\* registry is a no-op that raises no error.
C13_DisconnectOfAbsentRaisesNothing == stray # "raised"

\* ================================================================ startup
\* The subsystem checks of src/server.py __main__ (lines 74-136), run before
\* the WebsocketServer is created.

StartupInit ==
    /\ workingSubsystems = allSubsystems
    /\ env \in Environments
    /\ imported = {}
    /\ greeting \in GreetingText(allSubsystems)
    /\ idx = 1
    /\ examined = <<>>
    /\ boot = "loop"
    /\ ServerInit
    /\ ReplyIdle
    /\ ClientIdle
    /\ VoiceIdle

\* the loop body removes the subsystem, in the environment of this run
Removed(subsystem) == RemovedIn(env, subsystem)

\* One iteration of `for subsystem in workingSubsystems` (server.py:74-128):
\* the list iterator yields the item at its index and advances by one, also
\* when the body has removed an item from the list it iterates.
check_subsystem ==
    /\ boot = "loop"
    /\ idx <= Len(workingSubsystems)
    /\ LET r == LoopBody(env, workingSubsystems, idx, imported) IN
        /\ examined' = Append(examined, workingSubsystems[idx])
        /\ workingSubsystems' = r.working
        /\ imported' = r.imported
    /\ idx' = idx + 1
    /\ UNCHANGED <<env, boot, greeting, serverVars, replyVars, clientVars, voiceVars>>

\* the loop is exhausted: exit(1) unless "Responses" is in workingSubsystems
\* (server.py:130-136), else the server is created and run (137-153)
fatal_or_start ==
    /\ boot = "loop"
    /\ idx > Len(workingSubsystems)
    /\ boot' = IF "Responses" \notin Range(workingSubsystems) THEN "exit1" ELSE "serving"
    /\ UNCHANGED <<workingSubsystems, env, idx, examined, imported, greeting, serverVars,
                   replyVars, clientVars, voiceVars>>

StartupNext == check_subsystem \/ fatal_or_start

SpecStartup == StartupInit /\ [][StartupNext]_vars

\* number of times x occurs in the list q
RECURSIVE Count(_, _)
Count(q, x) ==
    IF q = <<>> THEN 0
    ELSE (IF Head(q) = x THEN 1 ELSE 0) + Count(Tail(q), x)

\* the subsystems of the initial list that are present and whose check does
\* not fail, in the order of the list
Healthy == SelectSeq(allSubsystems, LAMBDA x : ~Removed(x))

\* ------------------------------------------------------------------ C18
\* C18: the server starts accepting connections only if the Responses
\* subsystem passed its startup check; when the check failed or the file is
\* missing the process exits with status 1, whatever the other outcomes.
C18_StartsOnlyIfResponsesPassed ==
    /\ boot = "serving" => env["Responses"] = "ok"
    /\ (boot # "loop" /\ env["Responses"] # "ok") => boot = "exit1"

\* ------------------------------------------------------------------ C19
\* C19: when the startup loop has ended, every subsystem of the initial list
\* has been examined exactly once and workingSubsystems holds exactly the
\* subsystems that were present and whose check did not fail.
C19_LoopExaminesEachOnce ==
    boot # "loop" =>
        /\ \A x \in Range(allSubsystems) : Count(examined, x) = 1
        /\ workingSubsystems = Healthy

\* ================================================================== reply
\* Reply generation as a function of what the collaborators bring back:
\* Responses.generateResponse (called by the server, server.py:50) and
\* Carter.generateResponse / Carter.parseResponse.  Texts are sequences of
\* characters; a temperature is held in tenths of a degree (706 is 70.6).

P_city == <<"$", "c", "i", "t", "y", "$">>
P_weather == <<"$", "w", "e", "a", "t", "h", "e", "r", "$">>
P_real_temp == <<"$", "r", "e", "a", "l", "_", "t", "e", "m", "p", "$">>
P_wind_chill == <<"$", "w", "i", "n", "d", "_", "c", "h", "i", "l", "l", "$">>

\* "$city$ is $weather$ at $real_temp$ (feels $wind_chill$)"
WeatherTemplate ==
    P_city \o <<" ", "i", "s", " ">> \o P_weather \o <<" ", "a", "t", " ">>
        \o P_real_temp \o <<" ", "(", "f", "e", "e", "l", "s", " ">>
        \o P_wind_chill \o <<")">>

\* "Chicago is clear sky at 70 (feels 68)"
WeatherExample ==
    <<"C", "h", "i", "c", "a", "g", "o", " ", "i", "s", " ", "c", "l", "e",
      "a", "r", " ", "s", "k", "y", " ", "a", "t", " ", "7", "0", " ", "(",
      "f", "e", "e", "l", "s", " ", "6", "8", ")">>

Chicago == <<"C", "h", "i", "c", "a", "g", "o">>
ClearSky == <<"c", "l", "e", "a", "r", " ", "s", "k", "y">>

\* output.text values of the chat completion
BaseTexts ==
    {WeatherTemplate,
     <<"h", "e", "l", "l", "o">>,
     <<"I", "t", " ", "i", "s", " ", "$", "t", "i", "m", "e">>,
     P_real_temp \o P_city \o P_real_temp}

\* values of the triggers field: a list of trigger types
TriggerLists == {<<>>, <<"Weather Request">>, <<"time-request">>}

\* Carter.getCarterResponse: raises, or returns the JSON object of the
\* answer, with or without output.text and with or without a triggers field.
ChatResponses ==
    {[raised |-> TRUE, hasOutput |-> FALSE, text |-> <<>>, hasTriggers |-> FALSE,
      triggers |-> <<>>]}
    \cup {[raised |-> FALSE, hasOutput |-> FALSE, text |-> <<>>,
           hasTriggers |-> FALSE, triggers |-> <<>>]}
    \cup {[raised |-> FALSE, hasOutput |-> TRUE, text |-> b, hasTriggers |-> FALSE,
           triggers |-> <<>>] : b \in BaseTexts}
    \cup {[raised |-> FALSE, hasOutput |-> TRUE, text |-> b, hasTriggers |-> TRUE,
           triggers |-> g] : b \in BaseTexts, g \in TriggerLists}

\* the fields Weather.getLocation and Weather.getWeather index (Weather.py:11-13,
\* 24-26)
WeatherFields == {"lat", "lon", "city", "description", "temp", "feels_like"}

\* the answers of ip-api.com and api.openweathermap.org: complete or partial
WeatherAnswers ==
    {[has |-> h, city |-> Chicago, description |-> ClearSky, temp |-> t,
      feels_like |-> 682] :
        h \in {WeatherFields, WeatherFields \ {"city"}, WeatherFields \ {"temp"},
               WeatherFields \ {"lat"}, WeatherFields \ {"lon"}, {"city"}},
        t \in {706, 0 - 15}}

\* int(x) of a number held in tenths: truncation toward zero
IntTrunc(t) == IF t >= 0 THEN t \div 10 ELSE 0 - ((0 - t) \div 10)

Digit(d) == <<"0", "1", "2", "3", "4", "5", "6", "7", "8", "9">>[d + 1]

RECURSIVE NatStr(_)
NatStr(n) == IF n < 10 THEN <<Digit(n)>> ELSE NatStr(n \div 10) \o <<Digit(n % 10)>>

\* str(n) of an int
IntStr(n) == IF n < 0 THEN <<"-">> \o NatStr(0 - n) ELSE NatStr(n)

\* str.replace(old, new): every non-overlapping occurrence, left to right
RECURSIVE Replace(_, _, _)
Replace(str, old, new) ==
    IF Len(str) < Len(old) THEN str
    ELSE IF SubSeq(str, 1, Len(old)) = old
         THEN new \o Replace(SubSeq(str, Len(old) + 1, Len(str)), old, new)
         ELSE <<Head(str)>> \o Replace(Tail(str), old, new)

\* Weather.getWeather (Weather.py:18-28): indexing a field the answer lacks
\* raises KeyError
getWeather(w) ==
    IF WeatherFields \subseteq w.has
    THEN [ok |-> TRUE, city |-> w.city, weather |-> w.description, temp |-> w.temp,
          windchill |-> w.feels_like]
    ELSE [ok |-> FALSE, city |-> <<>>, weather |-> <<>>, temp |-> 0, windchill |-> 0]

\* Carter.py:33-36: the chain of replace calls
WeatherSubstitution(text, city, description, temp, windchill) ==
    Replace(Replace(Replace(Replace(text, P_city, city), P_weather, description),
                    P_real_temp, IntStr(IntTrunc(temp))),
            P_wind_chill, IntStr(IntTrunc(windchill)))

\* Carter.py:26-29: response['triggers'][0]['type'], "None" when that raises
Intent(resp) ==
    IF resp.hasTriggers /\ Len(resp.triggers) >= 1 THEN resp.triggers[1] ELSE "None"

\* Carter.parseResponse (Carter.py:24-38)
parseResponse(resp, w) ==
    IF ~resp.hasOutput THEN [ok |-> FALSE, text |-> <<>>]
    ELSE IF Intent(resp) = "Weather Request"
         THEN LET g == getWeather(w) IN
              IF ~g.ok THEN [ok |-> FALSE, text |-> <<>>]
              ELSE [ok |-> TRUE,
                    text |-> WeatherSubstitution(resp.text, g.city, g.weather, g.temp,
                                                 g.windchill)]
         ELSE [ok |-> TRUE, text |-> resp.text]

ReplyInit ==
    /\ response \in ChatResponses
    /\ wolframCall \in WolframOutcomes
    /\ weather \in WeatherAnswers
    /\ reply = [by |-> "none", ok |-> FALSE, text |-> <<>>]
    /\ AllWorking
    /\ StartupDone
    /\ ServerInit
    /\ ClientIdle
    /\ VoiceIdle

\* Responses.generateResponse(text) is applied (Responses.py:58-97)
Responses_generateResponse ==
    /\ reply.by = "none"
    /\ LET g == generateResponse(response, wolframCall) IN
        reply' = [by |-> "Responses", ok |-> g.ok,
                  text |-> IF g.ok THEN g.text ELSE <<>>]
    /\ UNCHANGED <<bootVars, serverVars,
                   response, wolframCall, weather, clientVars, voiceVars>>

\* Carter.generateResponse(text) is applied (Carter.py:41-44)
Carter_generateResponse ==
    /\ reply.by = "none"
    /\ LET g == IF response.raised THEN [ok |-> FALSE, text |-> <<>>]
                ELSE parseResponse(response, weather) IN
        reply' = [by |-> "Carter", ok |-> g.ok, text |-> g.text]
    /\ UNCHANGED <<bootVars, serverVars,
                   response, wolframCall, weather, clientVars, voiceVars>>

ReplyNext == Responses_generateResponse \/ Carter_generateResponse

SpecReply == ReplyInit /\ [][ReplyNext]_vars

\* the reply the server's handler would broadcast has been generated
Generated == reply.by = "Responses"

\* ------------------------------------------------------------------ C14
\* C14: for a chat-completion response with a weather-intent trigger,
\* Generate returns the base text with $city$, $weather$, $real_temp$ and
\* $wind_chill$ replaced by the weather values, the temperatures truncated to
\* integers; the template of the example becomes exactly
\* "Chicago is clear sky at 70 (feels 68)".
C14_WeatherPlaceholdersSubstituted ==
    (/\ Generated
     /\ wolframCall = "returned"
     /\ response.hasOutput
     /\ Intent(response) = "Weather Request"
     /\ weather.has = WeatherFields)
    => /\ reply.ok
       /\ reply.text = WeatherSubstitution(response.text, weather.city,
                                           weather.description, weather.temp,
                                           weather.feels_like)
       /\ (response.text = WeatherTemplate /\ weather.temp = 706)
              => reply.text = WeatherExample

\* ------------------------------------------------------------------ C15
\* C15: for every chat-completion response that has an output text and no
\* triggers field, Generate returns that text unchanged and raises no error.
C15_NoTriggersBaseTextUnchanged ==
    (Generated /\ response.hasOutput /\ ~response.hasTriggers)
    => (reply.ok /\ reply.text = response.text)

\* ------------------------------------------------------------------ C16
\* the text with the placeholders whose value the answer has replaced and the
\* others left as they are
SubstituteAvailable(text, w) ==
    LET a == IF "city" \in w.has THEN Replace(text, P_city, w.city) ELSE text
        b == IF "description" \in w.has THEN Replace(a, P_weather, w.description) ELSE a
        c == IF "temp" \in w.has
             THEN Replace(b, P_real_temp, IntStr(IntTrunc(w.temp))) ELSE b
    IN  IF "feels_like" \in w.has
        THEN Replace(c, P_wind_chill, IntStr(IntTrunc(w.feels_like))) ELSE c

\* C16: when the weather data lacks a value, generating the reply (by
\* Responses.generateResponse or by Carter.generateResponse) does not fail:
\* the reply has the placeholders that have a value substituted and the
\* placeholder without one left intact.
C16_MissingValueLeavesPlaceholder ==
    (/\ reply.by # "none"
     /\ wolframCall = "returned"
     /\ response.hasOutput
     /\ Intent(response) = "Weather Request"
     /\ weather.has # WeatherFields)
    => (reply.ok /\ reply.text = SubstituteAvailable(response.text, weather))

\* ================================================================= client
\* The text client (src/client.py): the websocket thread runs on_message for
\* each frame that arrives, the mainloop thread sends what the user types.
\* The server is seen from the client's end of the connection: it sends the
\* greeting, a frame for each message of the client, and the frames other
\* sessions' messages cause (send_message_to_all).

MaxSends == 2       \* messages the client sends in one run
MaxOthers == 1      \* frames caused by other sessions in one run

Delimiter == <<"$", "$">>

\* server.py:51: f"{message}$${generatedMessage}"
FrameText(message, generatedMessage) == message \o Delimiter \o generatedMessage

\* server.py:33: " $$ All subsystems are working!"
GreetingChars ==
    <<" ", "$", "$", " ", "A", "l", "l", " ", "s", "u", "b", "s", "y", "s",
      "t", "e", "m", "s", " ", "a", "r", "e", " ", "w", "o", "r", "k", "i",
      "n", "g", "!">>

\* what the user types: "hi", "exit"
ClientTexts == {<<"h", "i">>, <<"e", "x", "i", "t">>}

\* messages of other sessions
OtherTexts == {<<"y", "o">>}

\* replies the server generates: "ok", "a$$b"
ClientReplies == {<<"o", "k">>, <<"a", "$", "$", "b">>}

\* str.split(sep): the list of the parts between the occurrences of sep
RECURSIVE SplitAcc(_, _, _)
SplitAcc(str, sep, acc) ==
    IF Len(str) < Len(sep) THEN <<acc \o str>>
    ELSE IF SubSeq(str, 1, Len(sep)) = sep
         THEN <<acc>> \o SplitAcc(SubSeq(str, Len(sep) + 1, Len(str)), sep, <<>>)
         ELSE SplitAcc(Tail(str), sep, Append(acc, Head(str)))

Split(str, sep) == SplitAcc(str, sep, <<>>)

\* the client is connected and the greeting is on its way (server.py:38)
ClientInit ==
    /\ received = FALSE
    /\ mpc = "test"
    /\ msg = <<>>
    /\ wire = <<[payload |-> GreetingChars, own |-> FALSE]>>
    /\ outbox = <<>>
    /\ lastFrame = <<>>
    /\ shown = <<>>
    /\ nsent = 0
    /\ nown = 0
    /\ nother = 0
    /\ fresh = 0
    /\ AllWorking
    /\ StartupDone
    /\ ServerInit
    /\ ReplyIdle
    /\ VoiceIdle

\* on_message (client.py:10-12) is called with the next frame:
\* message.split("$$")[1] raises IndexError when the frame has no "$$", and
\* the websocket library reports the error and goes on; otherwise the part is
\* printed.
on_message ==
    /\ mpc # "closed"
    /\ wpc = "idle"
    /\ wire # <<>>
    /\ LET frame == Head(wire)
           parts == Split(frame.payload, Delimiter)
       IN  /\ wire' = Tail(wire)
           /\ lastFrame' = frame.payload
           /\ fresh' = fresh + 1
           /\ IF Len(parts) >= 2
              THEN /\ shown' = parts[2]
                   /\ wframe' = frame
                   /\ wpc' = "flag"
                   /\ UNCHANGED nown
              ELSE /\ nown' = IF frame.own THEN nown + 1 ELSE nown
                   /\ UNCHANGED <<shown, wframe, wpc>>
    /\ UNCHANGED <<bootVars, serverVars, replyVars, iSentTheMessage, spoken, wsock,
                   received, mpc, msg, outbox, nsent, nother>>

\* client.py:13-14: received = True, and on_message returns; a call in
\* progress runs to its end also after the mainloop has closed the connection
on_message_return ==
    /\ wpc = "flag"
    /\ received' = TRUE
    /\ nown' = IF wframe.own THEN nown + 1 ELSE nown
    /\ wpc' = "idle"
    /\ wframe' = NoFrame
    /\ UNCHANGED <<bootVars, serverVars, replyVars, iSentTheMessage, spoken, wsock,
                   shown, mpc, msg, wire, outbox, lastFrame, nsent, nother, fresh>>

\* client.py:34: if received
mainloop_test ==
    /\ mpc = "test"
    /\ mpc' = IF received THEN "input" ELSE "sleep"
    /\ UNCHANGED <<bootVars, serverVars,
                   replyVars, voiceVars, received, msg, wire, outbox, lastFrame, shown, nsent,
                   nown, nother, fresh>>

\* client.py:35-38: msg = input(...); "exit" closes the connection and ends
\* the thread
mainloop_input(text) ==
    /\ mpc = "input"
    /\ msg' = text
    /\ mpc' = IF text = <<"e", "x", "i", "t">> THEN "closed" ELSE "send"
    /\ UNCHANGED <<bootVars, serverVars,
                   replyVars, voiceVars, received, wire, outbox, lastFrame, shown, nsent, nown,
                   nother, fresh>>

\* client.py:39: ws.send(msg)
mainloop_send ==
    /\ mpc = "send"
    /\ nsent < MaxSends
    /\ outbox' = Append(outbox, msg)
    /\ nsent' = nsent + 1
    /\ fresh' = 0
    /\ mpc' = "clear"
    /\ UNCHANGED <<bootVars, serverVars,
                   replyVars, voiceVars, received, msg, wire, lastFrame, shown, nown, nother>>

\* client.py:40: received = False
mainloop_clear ==
    /\ mpc = "clear"
    /\ received' = FALSE
    /\ mpc' = "sleep"
    /\ UNCHANGED <<bootVars, serverVars,
                   replyVars, voiceVars, msg, wire, outbox, lastFrame, shown, nsent, nown,
                   nother, fresh>>

\* client.py:41: time.sleep(1), then the next round of the loop
mainloop_sleep ==
    /\ mpc = "sleep"
    /\ mpc' = "test"
    /\ UNCHANGED <<bootVars, serverVars,
                   replyVars, voiceVars, received, msg, wire, outbox, lastFrame, shown, nsent,
                   nown, nother, fresh>>

\* server.py:48-52 seen from the client: the server handles the client's next
\* message and its frame is sent to the client
server_frame_own ==
    /\ mpc # "closed"
    /\ outbox # <<>>
    /\ \E r \in ClientReplies :
          wire' = Append(wire, [payload |-> FrameText(Head(outbox), r), own |-> TRUE])
    /\ outbox' = Tail(outbox)
    /\ UNCHANGED <<bootVars, serverVars,
                   replyVars, voiceVars, received, mpc, msg, lastFrame, shown, nsent, nown,
                   nother, fresh>>

\* server.py:52 seen from the client: the frame of another session's message
\* is sent to the client too
server_frame_other ==
    /\ mpc # "closed"
    /\ nother < MaxOthers
    /\ \E m \in OtherTexts, r \in ClientReplies :
          wire' = Append(wire, [payload |-> FrameText(m, r), own |-> FALSE])
    /\ nother' = nother + 1
    /\ UNCHANGED <<bootVars, serverVars,
                   replyVars, voiceVars, received, mpc, msg, outbox, lastFrame, shown, nsent,
                   nown, fresh>>

ClientNext ==
    \/ on_message
    \/ on_message_return
    \/ mainloop_test
    \/ \E text \in ClientTexts : mainloop_input(text)
    \/ mainloop_send
    \/ mainloop_clear
    \/ mainloop_sleep
    \/ server_frame_own
    \/ server_frame_other

SpecClient == ClientInit /\ [][ClientNext]_vars

\* ------------------------------------------------------------------ C17
\* what follows the first occurrence of sep in str
RECURSIVE AfterFirst(_, _)
AfterFirst(str, sep) ==
    IF Len(str) < Len(sep) THEN <<>>
    ELSE IF SubSeq(str, 1, Len(sep)) = sep
         THEN SubSeq(str, Len(sep) + 1, Len(str))
         ELSE AfterFirst(Tail(str), sep)

\* C17: the client splits a frame once on "$$": the reply it shows is all
\* that follows the first "$$" of the frame, also when the reply itself
\* contains "$$".
C17_ShownReplyIsAllAfterFirstDelimiter ==
    (lastFrame # <<>> /\ Len(Split(lastFrame, Delimiter)) >= 2)
    => shown = AfterFirst(lastFrame, Delimiter)

\* ------------------------------------------------------------------ C20
\* C20: a frame for a message of the client that is received after the send
\* is never lost by the received flag: when on_message has handled the frame
\* of every message sent and the mainloop is back at its test, received is
\* set, so the client gets to send its next message.
C20_FrameAfterSendNotLost ==
    (nsent > 0 /\ nown = nsent /\ mpc \in {"test", "sleep"}) => received

\* ------------------------------------------------------------------ C21
\* C21: the text client takes turns with the server: it sends nothing before
\* it has received its first frame, and between two consecutive sends it has
\* received at least one frame: every step that is a ws.send starts in a
\* state where on_message has handled a frame since the previous send (or
\* since the start, for the first send).
C21_ClientTakesTurns == [][nsent' # nsent => fresh >= 1]_vars

\* ------------------------------------------------------------------ C22
\* the intents whose reply needs weather, time or news data
\* (Responses.py:68, 76, 81)
EnrichmentIntents == {"Weather Request", "time-request", "News request"}

\* C22: when the chat-completion call succeeds and the reply needs no
\* weather, time or news data, Generate returns the reply without error,
\* whatever becomes of the other collaborators (Wolfram, weather, news).
C22_DependsOnChatCompletionOnly ==
    (/\ Generated
     /\ ~response.raised
     /\ response.hasOutput
     /\ Intent(response) \notin EnrichmentIntents)
    => (reply.ok /\ reply.text = response.text)

\* ================================================================== voice
\* The voice client (src/server.py:248-391): as the text client, with the
\* user's words transcribed from the microphone, and with on_message passing
\* the reply to speak (remote text-to-speech) when iSentTheMessage is set.
\* The server is seen from the client's end, as for the text client.

\* what the transcription of the user's words gives: "hi", "exit", " Exit."
VoiceTexts ==
    {<<"h", "i">>, <<"e", "x", "i", "t">>, <<" ", "E", "x", "i", "t", ".">>}

UpperCase ==
    <<"A", "B", "C", "D", "E", "F", "G", "H", "I", "J", "K", "L", "M", "N", "O", "P",
      "Q", "R", "S", "T", "U", "V", "W", "X", "Y", "Z">>

LowerCase ==
    <<"a", "b", "c", "d", "e", "f", "g", "h", "i", "j", "k", "l", "m", "n", "o", "p",
      "q", "r", "s", "t", "u", "v", "w", "x", "y", "z">>

\* str.lower() (server.py:363)
Lower(str) ==
    [i \in 1..Len(str) |->
        IF \E k \in 1..26 : UpperCase[k] = str[i]
        THEN LowerCase[CHOOSE k \in 1..26 : UpperCase[k] = str[i]]
        ELSE str[i]]

\* sub in str (server.py:363)
Contains(str, sub) ==
    \E i \in 1..(Len(str) - Len(sub) + 1) : SubSeq(str, i, i + Len(sub) - 1) = sub

\* server.py:363: "exit" in predicted_text.lower()
SaysExit(predicted_text) == Contains(Lower(predicted_text), <<"e", "x", "i", "t">>)

\* speak (server.py:281-290): the audio is fetched and played, or the request
\* raises
SpeakOutcomes == {"played", "raised"}

\* the voice client is connected and the greeting is on its way
VoiceInit ==
    /\ received = FALSE
    /\ iSentTheMessage = TRUE
    /\ spoken = <<>>
    /\ wpc = "idle"
    /\ wframe = NoFrame
    /\ wsock = "open"
    /\ mpc = "test"
    /\ msg = <<>>
    /\ wire = <<[payload |-> GreetingChars, own |-> FALSE]>>
    /\ outbox = <<>>
    /\ lastFrame = <<>>
    /\ shown = <<>>
    /\ nsent = 0
    /\ nown = 0
    /\ nother = 0
    /\ fresh = 0
    /\ AllWorking
    /\ StartupDone
    /\ ServerInit
    /\ ReplyIdle

\* on_message of the voice client (server.py:293-296) is called with the next
\* frame: split raises IndexError when the frame has no "$$", which ends the
\* callback; else iSentTheMessage is tested, and the callback goes on to speak
\* or to printing the reply.
voice_on_message ==
    /\ mpc # "closed"
    /\ wsock = "open"
    /\ wpc = "idle"
    /\ wire # <<>>
    /\ LET frame == Head(wire)
           parts == Split(frame.payload, Delimiter)
       IN  /\ wire' = Tail(wire)
           /\ lastFrame' = frame.payload
           /\ nown' = IF frame.own THEN nown + 1 ELSE nown
           /\ fresh' = fresh + 1
           /\ IF Len(parts) < 2
              THEN UNCHANGED <<wpc, wframe>>
              ELSE /\ wframe' = frame
                   /\ wpc' = IF iSentTheMessage THEN "speak" ELSE "say"
    /\ UNCHANGED <<bootVars, serverVars, replyVars, iSentTheMessage, spoken, wsock,
                   received, shown, mpc, msg, outbox, nsent, nother>>

\* server.py:297-298: speak(message) returns from its HTTP request and the
\* flag is cleared, or the request raises, which ends the callback with the
\* flag left as it is.
voice_speak ==
    /\ mpc # "closed"
    /\ wpc = "speak"
    /\ \E outcome \in SpeakOutcomes :
          IF outcome = "raised"
          THEN /\ wpc' = "idle"
               /\ wframe' = NoFrame
               /\ UNCHANGED <<spoken, iSentTheMessage>>
          ELSE /\ spoken' = Append(spoken, wframe)
               /\ iSentTheMessage' = FALSE
               /\ wpc' = "say"
               /\ UNCHANGED wframe
    /\ UNCHANGED <<bootVars, serverVars, replyVars, clientVars, wsock>>

\* server.py:299-301: the reply is printed and queued with engine.say, and
\* engine.runAndWait() is called, which waits until the engine has spoken it.
voice_on_message_say ==
    /\ mpc # "closed"
    /\ wpc = "say"
    /\ shown' = Split(wframe.payload, Delimiter)[2]
    /\ wpc' = "wait"
    /\ UNCHANGED <<bootVars, serverVars, replyVars, iSentTheMessage, spoken, wframe,
                   wsock, received, mpc, msg, wire, outbox, lastFrame, nsent, nown,
                   nother, fresh>>

\* server.py:301-303: engine.runAndWait() returns and received is set.
voice_on_message_return ==
    /\ mpc # "closed"
    /\ wpc = "wait"
    /\ received' = TRUE
    /\ wpc' = "idle"
    /\ wframe' = NoFrame
    /\ UNCHANGED <<bootVars, serverVars, replyVars, iSentTheMessage, spoken, wsock,
                   shown, mpc, msg, wire, outbox, lastFrame, nsent, nown, nother,
                   fresh>>

\* server.py:343: while received (else time.sleep(1) and the next round)
voice_mainloop_test ==
    /\ mpc = "test"
    /\ mpc' = IF received THEN "input" ELSE "sleep"
    /\ UNCHANGED <<bootVars, serverVars,
                   replyVars, voiceVars, received, msg, wire, outbox, lastFrame,
                   shown, nsent, nown, nother, fresh>>

\* server.py:344-365, 377-378: the user's words are recorded and
\* transcribed; with "exit" in their lower-case form ws.close() is called and
\* exit() raises SystemExit inside the try, which the bare except catches:
\* an error is printed and the inner loop tests received again.
voice_mainloop_listen(text) ==
    /\ mpc = "input"
    /\ msg' = text
    /\ IF SaysExit(text)
       THEN /\ wsock' = "closed"
            /\ mpc' = "test"
       ELSE /\ mpc' = "send"
            /\ UNCHANGED wsock
    /\ UNCHANGED <<bootVars, serverVars, replyVars, iSentTheMessage, spoken, wpc,
                   wframe, received, wire, outbox, lastFrame, shown,
                   nsent, nown, nother, fresh>>

\* server.py:377-378: the transcription raises, the bare except prints an
\* error and the inner loop tests received again
voice_mainloop_listen_fails ==
    /\ mpc = "input"
    /\ mpc' = "test"
    /\ UNCHANGED <<bootVars, serverVars,
                   replyVars, voiceVars, received, msg, wire, outbox, lastFrame,
                   shown, nsent, nown, nother, fresh>>

\* server.py:366: ws.send(predicted_text); on a socket that ws.close() has
\* closed it raises, the bare except (377-378) prints an error and the inner
\* loop tests received again
voice_mainloop_send ==
    /\ mpc = "send"
    /\ IF wsock = "closed"
       THEN /\ mpc' = "test"
            /\ UNCHANGED <<outbox, nsent, fresh>>
       ELSE /\ nsent < MaxSends
            /\ outbox' = Append(outbox, msg)
            /\ nsent' = nsent + 1
            /\ fresh' = 0
            /\ mpc' = "flag"
    /\ UNCHANGED <<bootVars, serverVars,
                   replyVars, voiceVars, received, msg, wire, lastFrame, shown,
                   nown, nother>>

\* server.py:367: iSentTheMessage = True
voice_mainloop_flag ==
    /\ mpc = "flag"
    /\ iSentTheMessage' = TRUE
    /\ mpc' = "clear"
    /\ UNCHANGED <<bootVars, serverVars, replyVars, spoken, wpc, wframe, wsock,
                   received, msg, wire, outbox, lastFrame,
                   shown, nsent, nown, nother, fresh>>

\* server.py:369: received = False, and back to the test of the inner loop
voice_mainloop_clear ==
    /\ mpc = "clear"
    /\ received' = FALSE
    /\ mpc' = "test"
    /\ UNCHANGED <<bootVars, serverVars,
                   replyVars, voiceVars, msg, wire, outbox, lastFrame, shown,
                   nsent, nown, nother, fresh>>

\* server.py:380: time.sleep(1), then the next round of the outer loop
voice_mainloop_sleep ==
    /\ mpc = "sleep"
    /\ mpc' = "test"
    /\ UNCHANGED <<bootVars, serverVars,
                   replyVars, voiceVars, received, msg, wire, outbox, lastFrame,
                   shown, nsent, nown, nother, fresh>>

\* server.py:391: after ws.close() and the end of the callback it is in,
\* ws.run_forever() returns in the main thread and the process ends, the
\* mainloop thread with it
voice_run_forever_returns ==
    /\ mpc # "closed"
    /\ wsock = "closed"
    /\ wpc = "idle"
    /\ mpc' = "closed"
    /\ UNCHANGED <<bootVars, serverVars,
                   replyVars, voiceVars, received, msg, wire, outbox, lastFrame,
                   shown, nsent, nown, nother, fresh>>

VoiceNext ==
    \/ voice_on_message
    \/ voice_speak
    \/ voice_on_message_say
    \/ voice_on_message_return
    \/ voice_mainloop_test
    \/ \E text \in VoiceTexts : voice_mainloop_listen(text)
    \/ voice_mainloop_listen_fails
    \/ voice_mainloop_send
    \/ voice_mainloop_flag
    \/ voice_mainloop_clear
    \/ voice_mainloop_sleep
    \/ voice_run_forever_returns
    \/ server_frame_own
    \/ server_frame_other

SpecVoice == VoiceInit /\ [][VoiceNext]_vars

\* ------------------------------------------------------------------ C23
\* C23: the voice client passes to speak only the initial greeting and the
\* replies to messages it sent itself: a frame caused by another session's
\* message is never spoken through speak, in whatever order the frames of
\* the sessions arrive.
C23_SpeaksOnlyGreetingAndOwnReplies ==
    \A i \in 1..Len(spoken) :
        spoken[i].own \/ spoken[i].payload = GreetingChars
====
